---------------------------- MODULE Spec2Model ----------------------------
(***************************************************************************)
(* Central de Pecas (src/CentralPecas.py): a Streamlit script that builds  *)
(* a Mamdani fuzzy control system with scikit-fuzzy, binds three slider    *)
(* values to it, computes the crisp output numero_pecas and plots the      *)
(* membership functions.  Streamlit executes the script top to bottom and  *)
(* executes it again, from the top, whenever a slider is moved.            *)
(*                                                                         *)
(* Numbers.  A membership degree d in [0,1] is the integer d * SCALE.      *)
(* Every ramp of the script has width 20, 30, 50, 100 or 200 universe      *)
(* points, so every degree at a universe point is an exact integer.  The   *)
(* universe of fator_utilizacao is counted in thousandths (0..1199), its   *)
(* slider in hundredths (0..100).  A crisp output is the exact fraction    *)
(* <<numerator, denominator>>.  Floating-point rounding is not modelled.   *)
(***************************************************************************)
EXTENDS Integers, Sequences, FiniteSets, TLC

VARIABLES
    impl,                 \* centroid routine of the installed scikit-fuzzy
    pc,                   \* position of the script run
    tempo_espera,         \* slider, line 64 (minutes)
    fator_utilizacao,     \* slider, line 65 (hundredths)
    numero_funcionarios,  \* slider, line 66
    sim_input,            \* sim.input: name -> crisp value (universe units)
    firing,               \* firing strength of rule1..rule5 of the last compute()
    aggregated,           \* aggregated output set of numero_pecas of the last compute()
    sim_output,           \* sim.output: name -> <<num, den>>
    ok,                   \* what safe_compute(sim) returned: <<>> before the call
    st_error,             \* the message st.error showed, "" when none
    numero_pecas,         \* the recommendation written at line 77: <<>> or <<n>>
    plotted,              \* output_value handed to the chart at line 141: <<>> or <<v>>
    reads,                \* source lines that read sim.output["numero_pecas"] in this run
    memo,                 \* observer: one earlier run's sliders and outcome, <<>> when none
    probe                 \* observer: one element of a term's array, <<>> when none

vars == <<impl, pc, tempo_espera, fator_utilizacao, numero_funcionarios,
          sim_input, firing, aggregated, sim_output, ok, st_error,
          numero_pecas, plotted, reads, memo, probe>>

---------------------------------------------------------------------------
\* Bounds of the model: the slider positions a user moves to are sampled
\* with these strides (every sampled position is a real slider position).
TempoStep == 5
FatorStep == 10
FuncStep == 10
\* Stride of the slider positions of the repeated-run specification.
RepeatStep == 60

\* Degree 1.0: the least common multiple of the ramp widths 20, 30, 50, 100, 200.
SCALE == 2 * 300

\* Universe maxima: np.arange(0, 121, 1), np.arange(0, 1.2, 0.001) in
\* thousandths, np.arange(0, 101, 1), np.arange(0, 501, 1).
m_max == 120
p_max == 1199
s_max == 100
n_max == 500
\* Slider ranges (lines 64-66) and initial positions.
fator_slider_max == 100
tempo_default == 30
fator_default == 30
func_default == 30

Min(a, b) == IF a <= b THEN a ELSE b
Max(a, b) == IF a >= b THEN a ELSE b

---------------------------------------------------------------------------
\* Mutant of trimf: the ramps without their lower and upper limits.
trimf_unguarded(x, a, b, c) ==
    IF x = b THEN SCALE
    ELSE IF a # b /\ x < b THEN ((x - a) * SCALE) \div (b - a)
    ELSE IF b # c /\ b < x THEN ((c - x) * SCALE) \div (c - b)
    ELSE 0

\* skfuzzy.trimf(x, [a, b, c]) at one point x: zero, the left ramp when a # b,
\* the right ramp when b # c, and 1 at x = b.
trimf(x, a, b, c) ==
    IF x = b THEN SCALE
    ELSE IF a # b /\ a < x /\ x < b THEN ((x - a) * SCALE) \div (b - a)
    ELSE IF b # c /\ b < x /\ x < c THEN ((c - x) * SCALE) \div (c - b)
    ELSE 0

\* skfuzzy.trapmf(x, [a, b, c, d]) at one point x: ones, then the left
\* triangle [a,b,b] where x <= b, then the right triangle [c,c,d] where
\* x >= c, then zero where x < a and where x > d, in this order.
trapmf(x, a, b, c, d) ==
    LET y0 == SCALE
        y1 == IF x <= b THEN trimf(x, a, b, b) ELSE y0
        y2 == IF x >= c THEN trimf(x, c, c, d) ELSE y1
        y3 == IF x < a THEN 0 ELSE y2
    IN  IF x > d THEN 0 ELSE y3

\* A term's shape: <<a,b,c>> is trimf, <<a,b,c,d>> is trapmf.
mf(x, abc) ==
    IF Len(abc) = 3 THEN trimf(x, abc[1], abc[2], abc[3])
    ELSE trapmf(x, abc[1], abc[2], abc[3], abc[4])

\* The linguistic variables (lines 21-47): universe and breakpoints per term.
m_universe == 0..m_max
m_terms == [muito_pequeno |-> <<0, 0, 10, 30>>,
            pequeno       |-> <<10, 30, 50>>,
            medio         |-> <<40, 60, 90>>,
            grande        |-> <<80, 100, 120, 120>>]

p_universe == 0..p_max
p_terms == [baixo |-> <<0, 0, 200, 400>>,
            medio |-> <<300, 500, 700>>,
            alto  |-> <<600, 800, 1000, 1000>>]

s_universe == 0..s_max
s_terms == [pequeno |-> <<0, 0, 20, 40>>,
            medio   |-> <<30, 50, 70>>,
            grande  |-> <<60, 80, 100, 100>>]

n_universe == 0..n_max
n_terms == [muito_pequeno |-> <<0, 0, 50, 150>>,
            pequeno       |-> <<50, 150, 250>>,
            pouco_pequeno |-> <<125, 175, 225>>,
            medio         |-> <<150, 250, 350>>,
            pouco_grande  |-> <<275, 325, 375>>,
            grande        |-> <<300, 400, 500>>,
            muito_grande  |-> <<350, 450, 500, 500>>]

Antecedents == [tempo_espera        |-> [universe |-> m_universe, terms |-> m_terms],
                fator_utilizacao    |-> [universe |-> p_universe, terms |-> p_terms],
                numero_funcionarios |-> [universe |-> s_universe, terms |-> s_terms]]

\* A numpy array is a table of values, computed when it is built: the
\* function as an explicit table.
np_array(f) == f @@ <<>>

\* var[label].mf: the term's membership array over the variable's universe.
term_mf(universe, abc) == [x \in universe |-> mf(x, abc)]

\* The arrays of the output variable's terms (lines 41-47).
n_mf == [l \in DOMAIN n_terms |-> np_array(term_mf(n_universe, n_terms[l]))]

\* fuzz.interp_membership(universe, mf, x) for x on the grid of the universe;
\* zero outside the universe.
interp_membership(universe, abc, x) ==
    IF x \in universe THEN term_mf(universe, abc)[x] ELSE 0

---------------------------------------------------------------------------
\* Antecedent expressions: a term of an input variable, or l & r, or l | r.
Term(v, l) == [op |-> "term", var |-> v, label |-> l]
And(l, r)  == [op |-> "and", left |-> l, right |-> r]
Or(l, r)   == [op |-> "or", left |-> l, right |-> r]

\* Mutant of and_func: the product instead of the minimum.
and_func_product(a, b) == (a * b) \div SCALE

\* Rule(antecedent, consequent): and_func = np.fmin, or_func = np.fmax.
and_func(a, b) == Min(a, b)
or_func(a, b) == Max(a, b)

rule1 == [antecedent |-> And(Term("tempo_espera", "muito_pequeno"),
                             Term("numero_funcionarios", "pequeno")),
          consequent |-> "muito_grande"]
rule2 == [antecedent |-> And(Term("tempo_espera", "pequeno"),
                             Term("numero_funcionarios", "grande")),
          consequent |-> "pequeno"]
rule3 == [antecedent |-> Term("fator_utilizacao", "baixo"), consequent |-> "pequeno"]
rule4 == [antecedent |-> Term("fator_utilizacao", "alto"), consequent |-> "grande"]
rule5 == [antecedent |-> Term("tempo_espera", "grande"), consequent |-> "muito_grande"]

\* ctrl.ControlSystem([rule1, rule2, rule3, rule4, rule5])
system == <<rule1, rule2, rule3, rule4, rule5>>

\* Degree of one term of an input variable at the bound input.
degree(input, v, l) ==
    interp_membership(Antecedents[v].universe, Antecedents[v].terms[l], input[v])

\* Membership value of an antecedent expression under the bound inputs.
RECURSIVE strength(_, _)
strength(expr, input) ==
    IF expr.op = "term" THEN degree(input, expr.var, expr.label)
    ELSE IF expr.op = "and"
         THEN and_func(strength(expr.left, input), strength(expr.right, input))
         ELSE or_func(strength(expr.left, input), strength(expr.right, input))

\* Firing strength of every rule of the system (consequent weight 1).
fire(input) ==
    np_array([i \in 1..Len(system) |-> strength(system[i].antecedent, input)])

---------------------------------------------------------------------------
\* Accumulation (compute_rule): a consequent term's membership value is the
\* np.fmax of the activations of the rules that conclude it; a term no rule
\* concludes has none.
Targeted == {system[i].consequent : i \in 1..Len(system)}

\* Mutant of accumulate: np.fmin instead of np.fmax.
RECURSIVE accumulate_fmin(_, _, _)
accumulate_fmin(alpha, label, i) ==
    IF i = 0 THEN SCALE
    ELSE IF system[i].consequent = label
         THEN Min(alpha[i], accumulate_fmin(alpha, label, i - 1))
         ELSE accumulate_fmin(alpha, label, i - 1)

RECURSIVE accumulate(_, _, _)
accumulate(alpha, label, i) ==
    IF i = 0 THEN 0
    ELSE IF system[i].consequent = label
         THEN Max(alpha[i], accumulate(alpha, label, i - 1))
         ELSE accumulate(alpha, label, i - 1)

membership_value(alpha) ==
    np_array([l \in Targeted |-> accumulate(alpha, l, Len(system))])

\* Mutant of cut_mf: the term's array scaled by the membership value.
cut_mf_scaled(cut, label, y) == (cut * n_mf[label][y]) \div SCALE

\* Implication: the term's array cut at its membership value, np.minimum.
cut_mf(cut, label, y) == Min(cut, n_mf[label][y])

\* find_memberships: output_mf is the np.maximum, over the terms that have a
\* membership value, of the cut arrays.  (The cut levels of this system cross
\* the ramps at universe points, so the universe gains no new point.)
RECURSIVE max_over(_, _, _)
max_over(labels, cuts, y) ==
    IF labels = {} THEN 0
    ELSE LET l == CHOOSE k \in labels : TRUE
         IN  Max(cut_mf(cuts[l], l, y), max_over(labels \ {l}, cuts, y))

output_mf(alpha) ==
    LET cuts == membership_value(alpha)
    IN  np_array([y \in n_universe |-> max_over(Targeted, cuts, y)])

\* Sums over the universe points lo..hi, halving the range (the order of an
\* exact sum does not matter): mfx.sum(), and the sum of x * mfx.
RECURSIVE mf_sum(_, _, _)
mf_sum(mfx, lo, hi) ==
    IF lo > hi THEN 0
    ELSE IF lo = hi THEN mfx[lo]
    ELSE LET mid == (lo + hi) \div 2
         IN  mf_sum(mfx, lo, mid) + mf_sum(mfx, mid + 1, hi)

RECURSIVE moment_sum(_, _, _)
moment_sum(mfx, lo, hi) ==
    IF lo > hi THEN 0
    ELSE IF lo = hi THEN lo * mfx[lo]
    ELSE LET mid == (lo + hi) \div 2
         IN  moment_sum(mfx, lo, mid) + moment_sum(mfx, mid + 1, hi)

\* defuzz(): 'Total area is zero in defuzzification!' when mfx.sum() == 0.
zero_area(mfx) == mf_sum(mfx, 0, n_max) = 0

\* centroid as the sum of x * mfx over the sum of mfx.
centroid_sum(mfx) == <<moment_sum(mfx, 0, n_max), mf_sum(mfx, 0, n_max)>>

\* centroid by areas: between the neighbouring universe points i-1 and i the
\* set is a trapezoid of area (y1 + y2) / 2 with its own centre of gravity; a
\* piece with y1 = y2 = 0 adds nothing.  Both sums are kept times 6, which
\* leaves the quotient unchanged.
RECURSIVE area_moments(_, _, _)
area_moments(mfx, lo, hi) ==
    IF lo > hi THEN 0
    ELSE IF lo = hi
         THEN LET y1 == mfx[lo - 1]
                  y2 == mfx[lo]
              IN  3 * (lo - 1) * (y1 + y2) + y1 + 2 * y2
    ELSE LET mid == (lo + hi) \div 2
         IN  area_moments(mfx, lo, mid) + area_moments(mfx, mid + 1, hi)

RECURSIVE area_total(_, _, _)
area_total(mfx, lo, hi) ==
    IF lo > hi THEN 0
    ELSE IF lo = hi THEN 3 * (mfx[lo - 1] + mfx[lo])
    ELSE LET mid == (lo + hi) \div 2
         IN  area_total(mfx, lo, mid) + area_total(mfx, mid + 1, hi)

centroid_area(mfx) == <<area_moments(mfx, 1, n_max), area_total(mfx, 1, n_max)>>

\* The script pins no scikit-fuzzy release: early releases defuzzify with
\* the sum formula, later ones with the area formula.  One installation
\* uses one of them throughout.
Impls == {"area", "sum"}

\* Mutant of centroid: the mean of the support, the degrees ignored.
centroid_unweighted(version, mfx) ==
    LET ind == np_array([y \in n_universe |-> IF mfx[y] > 0 THEN 1 ELSE 0])
    IN  <<moment_sum(ind, 0, n_max), mf_sum(ind, 0, n_max)>>

\* Mutant of centroid: the moment divided by the number of universe points.
centroid_unnormalised(version, mfx) ==
    <<moment_sum(mfx, 0, n_max), SCALE * (n_max + 1)>>

centroid(version, mfx) ==
    IF version = "area" THEN centroid_area(mfx) ELSE centroid_sum(mfx)

\* Python's round(x) of the fraction q = <<num, den>>: nearest integer, a tie
\* to the even one.
round(q) ==
    LET fl == q[1] \div q[2]
        r2 == 2 * (q[1] - fl * q[2])
    IN  IF r2 < q[2] THEN fl
        ELSE IF r2 > q[2] THEN fl + 1
        ELSE IF fl % 2 = 0 THEN fl ELSE fl + 1

---------------------------------------------------------------------------
InputNames == {"tempo_espera", "fator_utilizacao", "numero_funcionarios"}

Strided(max, step) == {k * step : k \in 0..(max \div step)}

NoAggregate == np_array([y \in n_universe |-> 0])
NoFiring == np_array([i \in 1..Len(system) |-> 0])

\* Mutant of Constructed: the simulation of the previous run is kept, with
\* its output.
Constructed_stale(t, f, s) ==
    /\ pc' = "sliders"
    /\ tempo_espera' = t
    /\ fator_utilizacao' = f
    /\ numero_funcionarios' = s
    /\ sim_input' = <<>>
    /\ firing' = NoFiring
    /\ aggregated' = NoAggregate
    /\ sim_output' = sim_output
    /\ ok' = <<>>
    /\ st_error' = ""
    /\ numero_pecas' = <<>>
    /\ plotted' = <<>>
    /\ reads' = {}

\* A fresh run of the script up to line 66: the control system and the
\* simulation are constructed, the sliders hold the given positions.
Constructed(t, f, s) ==
    /\ pc' = "sliders"
    /\ tempo_espera' = t
    /\ fator_utilizacao' = f
    /\ numero_funcionarios' = s
    /\ sim_input' = <<>>
    /\ firing' = NoFiring
    /\ aggregated' = NoAggregate
    /\ sim_output' = <<>>
    /\ ok' = <<>>
    /\ st_error' = ""
    /\ numero_pecas' = <<>>
    /\ plotted' = <<>>
    /\ reads' = {}

Init ==
    /\ impl \in Impls
    /\ pc = "sliders"
    /\ tempo_espera = tempo_default
    /\ fator_utilizacao = fator_default
    /\ numero_funcionarios = func_default
    /\ sim_input = <<>>
    /\ firing = NoFiring
    /\ aggregated = NoAggregate
    /\ sim_output = <<>>
    /\ ok = <<>>
    /\ st_error = ""
    /\ numero_pecas = <<>>
    /\ plotted = <<>>
    /\ reads = {}
    /\ memo = <<>>
    /\ probe = <<>>

\* Mutant of bound_inputs: numero_funcionarios is not bound.
bound_inputs_partial(t, f, s) == [tempo_espera |-> t, fator_utilizacao |-> 10 * f]

\* Lines 69-71: the three slider values become the simulation's inputs.
bound_inputs(t, f, s) ==
    [tempo_espera |-> t, fator_utilizacao |-> 10 * f, numero_funcionarios |-> s]

BindInputs ==
    /\ pc = "sliders"
    /\ sim_input' = bound_inputs(tempo_espera, fator_utilizacao, numero_funcionarios)
    /\ pc' = "bound"
    /\ UNCHANGED <<impl, tempo_espera, fator_utilizacao, numero_funcionarios,
                   firing, aggregated, sim_output, ok, st_error, numero_pecas,
                   plotted, reads, memo, probe>>

\* simulation.compute(): what it leaves behind.  It raises when an antecedent
\* has no input, and when the aggregated set has zero area.
compute(version, input) ==
    IF DOMAIN input # InputNames
    THEN [raised |-> "All antecedents must have input values!",
          firing |-> NoFiring, aggregated |-> NoAggregate, output |-> <<>>]
    ELSE LET alpha == fire(input)
             agg == output_mf(alpha)
         IN  IF zero_area(agg)
             THEN [raised |-> "Crisp output cannot be calculated",
                   firing |-> alpha, aggregated |-> agg, output |-> <<>>]
             ELSE [raised |-> "", firing |-> alpha, aggregated |-> agg,
                   output |-> [numero_pecas |-> centroid(version, agg)]]

\* Mutant of safe_compute: True whatever compute() did.
safe_compute_always(result) == TRUE

\* Line 74 with lines 11-17: safe_compute(sim) returns True when compute()
\* raised nothing; otherwise it shows the error and returns False.
safe_compute(result) == result.raised = ""

SafeCompute ==
    /\ pc = "bound"
    /\ \E result \in {compute(impl, sim_input)} :
           /\ firing' = result.firing
           /\ aggregated' = result.aggregated
           /\ sim_output' = IF result.raised = "" THEN result.output ELSE sim_output
           /\ ok' = <<safe_compute(result)>>
           /\ st_error' = IF safe_compute(result) THEN "" ELSE result.raised
           /\ pc' = IF safe_compute(result) THEN "computed" ELSE "charts"
    /\ UNCHANGED <<impl, tempo_espera, fator_utilizacao, numero_funcionarios,
                   sim_input, numero_pecas, plotted, reads, memo, probe>>

\* Lines 76-77: the rounded output is written as the recommendation.
WriteRecommendation ==
    /\ pc = "computed"
    /\ numero_pecas' = <<round(sim_output["numero_pecas"])>>
    /\ reads' = reads \cup {76}
    /\ pc' = "charts"
    /\ UNCHANGED <<impl, tempo_espera, fator_utilizacao, numero_funcionarios,
                   sim_input, firing, aggregated, sim_output, ok, st_error,
                   plotted, memo, probe>>

\* Lines 137-141: the four charts; the last one is handed
\* sim.output["numero_pecas"], a KeyError when the key is absent.
PlotCharts ==
    /\ pc = "charts"
    /\ reads' = reads \cup {141}
    /\ IF "numero_pecas" \in DOMAIN sim_output
       THEN /\ plotted' = <<sim_output["numero_pecas"]>>
            /\ pc' = "done"
       ELSE /\ plotted' = <<>>
            /\ pc' = "KeyError"
    /\ UNCHANGED <<impl, tempo_espera, fator_utilizacao, numero_funcionarios,
                   sim_input, firing, aggregated, sim_output, ok, st_error,
                   numero_pecas, memo, probe>>

Finished == pc \in {"done", "KeyError"}

\* The user moves one slider: Streamlit executes the script again from the
\* top, the other sliders keeping their positions.
MoveSlider(tempos, fatores, funcs) ==
    \/ \E t \in tempos : Constructed(t, fator_utilizacao, numero_funcionarios)
    \/ \E f \in fatores : Constructed(tempo_espera, f, numero_funcionarios)
    \/ \E s \in funcs : Constructed(tempo_espera, fator_utilizacao, s)

Rerun ==
    /\ Finished
    /\ MoveSlider(Strided(m_max, TempoStep),
                  Strided(fator_slider_max, FatorStep),
                  Strided(s_max, FuncStep))
    /\ UNCHANGED <<impl, memo, probe>>

Next == BindInputs \/ SafeCompute \/ WriteRecommendation \/ PlotCharts \/ Rerun

Spec == Init /\ [][Next]_vars

---------------------------------------------------------------------------
\* Repeated runs, observed: when the script is executed again the observer
\* may remember the run that has just finished.
Sliders == <<tempo_espera, fator_utilizacao, numero_funcionarios>>

Outcome == [ok |-> ok, output |-> sim_output, firing |-> firing,
            numero_pecas |-> numero_pecas, plotted |-> plotted, pc |-> pc]

RerunObserved ==
    /\ Finished
    /\ MoveSlider(Strided(m_max, RepeatStep),
                  Strided(fator_slider_max, RepeatStep),
                  Strided(s_max, RepeatStep))
    /\ memo' \in {memo, <<[sliders |-> Sliders, outcome |-> Outcome]>>}
    /\ UNCHANGED <<impl, probe>>

NextRepeat ==
    BindInputs \/ SafeCompute \/ WriteRecommendation \/ PlotCharts \/ RerunObserved

SpecRepeat == Init /\ [][NextRepeat]_vars

\* Lines 21-47 alone: each element of each term's membership array is the
\* membership function at one universe point.  The observer looks at one
\* element of one array.
Variables ==
    [tempo_espera        |-> [universe |-> m_universe, terms |-> m_terms],
     fator_utilizacao    |-> [universe |-> p_universe, terms |-> p_terms],
     numero_funcionarios |-> [universe |-> s_universe, terms |-> s_terms],
     numero_pecas        |-> [universe |-> n_universe, terms |-> n_terms]]

EvaluateTerm ==
    /\ pc = "sliders"
    /\ probe = <<>>
    /\ \E v \in DOMAIN Variables :
         \E l \in DOMAIN Variables[v].terms :
           \E x \in Variables[v].universe :
             probe' = [var |-> v, label |-> l, x |-> x,
                       abc |-> Variables[v].terms[l],
                       degree |-> term_mf(Variables[v].universe,
                                          Variables[v].terms[l])[x]]
    /\ UNCHANGED <<impl, pc, tempo_espera, fator_utilizacao, numero_funcionarios,
                   sim_input, firing, aggregated, sim_output, ok, st_error,
                   numero_pecas, plotted, reads, memo>>

SpecTerms == Init /\ [][EvaluateTerm]_vars

---------------------------------------------------------------------------
\* Notions the properties use.
Computed == ok = <<TRUE>>
Failed == ok = <<FALSE>>
AfterCompute == ok # <<>>
HasOutput == "numero_pecas" \in DOMAIN sim_output

\* The simulation's state, read off its data.
SimState ==
    IF st_error # "" THEN "Failed"
    ELSE IF HasOutput THEN "Computed"
    ELSE IF DOMAIN sim_input # {} THEN "InputsBound"
    ELSE "Created"

\* Degrees of the antecedent terms at the slider positions.
deg_m(label) == mf(tempo_espera, m_terms[label])
deg_p(label) == mf(10 * fator_utilizacao, p_terms[label])
deg_s(label) == mf(numero_funcionarios, s_terms[label])

\* q = <<num, den>> lies within dist of the value c2 / 2 (c2 counts halves).
Near(q, c2, dist) ==
    /\ 2 * q[1] - c2 * q[2] <= 2 * dist * q[2]
    /\ c2 * q[2] - 2 * q[1] <= 2 * dist * q[2]

\* Smallest and largest universe point of lo..hi where the set is not zero
\* (n_max + 1 and -1 when there is none).
RECURSIVE support_min(_, _, _)
support_min(mfx, lo, hi) ==
    IF lo = hi THEN (IF mfx[lo] > 0 THEN lo ELSE n_max + 1)
    ELSE LET mid == (lo + hi) \div 2
         IN  Min(support_min(mfx, lo, mid), support_min(mfx, mid + 1, hi))

RECURSIVE support_max(_, _, _)
support_max(mfx, lo, hi) ==
    IF lo = hi THEN (IF mfx[lo] > 0 THEN lo ELSE -1)
    ELSE LET mid == (lo + hi) \div 2
         IN  Max(support_max(mfx, lo, mid), support_max(mfx, mid + 1, hi))

---------------------------------------------------------------------------
\* C1: compute() on numero_pecas fails if and only if every one of the five
\* rules fires with strength 0; when some rule fires with strength > 0 it
\* succeeds and yields a crisp value.
C1_FailsIffNoRuleFires ==
    AfterCompute =>
        /\ Failed <=> \A i \in 1..Len(system) : firing[i] = 0
        /\ (\E i \in 1..Len(system) : firing[i] > 0) =>
               /\ Computed
               /\ HasOutput
               /\ sim_output["numero_pecas"][2] > 0

C1_Witness ==
    /\ Failed
    /\ st_error # ""
    /\ \A i \in 1..Len(system) : firing[i] = 0
    /\ DOMAIN sim_input = InputNames

\* C2: the simulation moves only Created -> InputsBound -> Computed | Failed;
\* compute() runs only once all inputs are bound, success leaves the output
\* of numero_pecas populated, an error ends in Failed, and Computed and Failed
\* are not left (the next run of the script works on a new simulation).
C2_NewSimulation == pc' = "sliders" /\ SimState' = "Created"

C2_ComputeStep == ok = <<>> /\ ok' # <<>>

C2_StateMachine ==
    [][ /\ \/ SimState' = SimState
           \/ SimState = "Created" /\ SimState' = "InputsBound"
           \/ SimState = "InputsBound" /\ SimState' \in {"Computed", "Failed"}
           \/ C2_NewSimulation
        /\ C2_ComputeStep =>
               /\ SimState = "InputsBound"
               /\ DOMAIN sim_input = InputNames
               /\ SimState' \in {"Computed", "Failed"}
               /\ ok' = <<TRUE>> => SimState' = "Computed" /\ HasOutput'
               /\ ok' = <<FALSE>> => SimState' = "Failed"
        /\ SimState' # SimState => (C2_ComputeStep \/ C2_NewSimulation \/ pc = "sliders")
      ]_vars

C2_Witness == SimState = "Failed" /\ pc = "KeyError" /\ DOMAIN sim_input = InputNames

\* C3: safe_compute returns True exactly when compute() raised nothing; when
\* it returns False the run produces no number for numero_pecas: no output is
\* stored, no recommendation is written, no value is plotted, and the error
\* is shown.
C3_ErrorIsDistinct ==
    AfterCompute =>
        /\ Computed <=> HasOutput
        /\ Computed <=> st_error = ""
        /\ Failed => /\ sim_output = <<>>
                     /\ numero_pecas = <<>>
                     /\ plotted = <<>>

C3_Witness == Failed /\ pc = "KeyError" /\ numero_pecas = <<>> /\ plotted = <<>>

\* C4: at every point y of the universe the aggregated set is the maximum,
\* over the five rules, of min(alpha, consequent term at y): muito_grande for
\* rules 1 and 5, pequeno for rules 2 and 3, grande for rule 4, alpha being
\* the rule's firing strength clamped to [0,1].
C4_Clamp(a) == Max(0, Min(SCALE, a))

C4_Consequent == <<"muito_grande", "pequeno", "pequeno", "grande", "muito_grande">>

C4_Clipped(i, y) == Min(C4_Clamp(firing[i]), n_mf[C4_Consequent[i]][y])

C4_AggregateIsMaxOfClipped ==
    AfterCompute =>
        \A y \in n_universe :
            aggregated[y] =
                Max(C4_Clipped(1, y),
                    Max(C4_Clipped(2, y),
                        Max(C4_Clipped(3, y), Max(C4_Clipped(4, y), C4_Clipped(5, y)))))

\* Two rules with different consequents fire partially, and one of them is cut.
C4_Witness ==
    /\ Computed
    /\ firing[3] > 0 /\ firing[3] < SCALE
    /\ firing[5] > 0 /\ firing[5] < SCALE
    /\ \E y \in n_universe : aggregated[y] = firing[3] /\ n_mf.pequeno[y] > firing[3]

\* C5: the firing strength of rule1 is min(tempo_espera.muito_pequeno,
\* numero_funcionarios.pequeno), of rule2 min(tempo_espera.pequeno,
\* numero_funcionarios.grande), of rules 3, 4, 5 the degree of
\* fator_utilizacao.baixo, fator_utilizacao.alto, tempo_espera.grande; each
\* in [0,1].
C5_FiringStrengths ==
    AfterCompute =>
        /\ firing[1] = Min(deg_m("muito_pequeno"), deg_s("pequeno"))
        /\ firing[2] = Min(deg_m("pequeno"), deg_s("grande"))
        /\ firing[3] = deg_p("baixo")
        /\ firing[4] = deg_p("alto")
        /\ firing[5] = deg_m("grande")
        /\ \A i \in 1..Len(system) : firing[i] \in 0..SCALE

\* Both sides of rule1's conjunction hold partially, to different degrees.
C5_Witness ==
    /\ AfterCompute
    /\ deg_m("muito_pequeno") \in 1..(SCALE - 1)
    /\ deg_s("pequeno") \in 1..(SCALE - 1)
    /\ deg_m("muito_pequeno") # deg_s("pequeno")

\* C6: every membership function of the script has a degree in [0,1] at
\* every point, 0 outside [a,d] (trapezoid) or [a,c] (triangle), and at a
\* zero-width ramp (a = b or c = d) it jumps to 1 at that point.
C6_First(abc) == abc[1]
C6_Last(abc) == abc[Len(abc)]

C6_MembershipRange ==
    probe # <<>> =>
        /\ probe.degree \in 0..SCALE
        /\ (probe.x < C6_First(probe.abc) \/ probe.x > C6_Last(probe.abc)) =>
               probe.degree = 0
        /\ (probe.abc[1] = probe.abc[2] /\ probe.x = probe.abc[1]) =>
               probe.degree = SCALE
        /\ (probe.abc[Len(probe.abc) - 1] = C6_Last(probe.abc)
                /\ probe.x = C6_Last(probe.abc)) => probe.degree = SCALE

\* The zero-width rising ramp of tempo_espera.muito_pequeno, at its jump.
C6_Witness ==
    /\ probe # <<>>
    /\ probe.abc = <<0, 0, 10, 30>>
    /\ probe.x = 0
    /\ probe.degree = SCALE

C8_Scenario ==
    /\ AfterCompute
    /\ tempo_espera = 5
    /\ numero_funcionarios = 10
    /\ \A i \in 2..Len(system) : firing[i] = 0

C8_Fuzzy ==
    /\ deg_m("muito_pequeno") = SCALE
    /\ deg_s("pequeno") = SCALE
    /\ firing[1] = SCALE
    /\ aggregated = n_mf.muito_grande

C8_Original ==
    C8_Scenario => C8_Fuzzy /\ Near(centroid_sum(aggregated), 925, 1)

\* C8 amended: the same, with a centroid within 1 of 446; so is the output
\* the simulation stores.
C8_Amended ==
    C8_Scenario =>
        /\ C8_Fuzzy
        /\ Near(centroid_sum(aggregated), 892, 1)
        /\ Computed /\ HasOutput
        /\ Near(sim_output["numero_pecas"], 892, 1)

C8_Witness == C8_Scenario /\ pc = "done" /\ plotted # <<>>

\* C9 as stated: sim.output["numero_pecas"] is read only after a compute()
\* that succeeded.
C9_ReadOnlyAfterSuccess == reads # {} => Computed

\* C10: after a successful compute() the crisp output lies in [0, 500], and
\* between the smallest and the largest universe point where the aggregated
\* set is not zero; the recommendation written is an integer in 0..500.
C10_OutputWithinSupport ==
    /\ Computed =>
           \A q \in {sim_output["numero_pecas"]},
              lo \in {support_min(aggregated, 0, n_max)},
              hi \in {support_max(aggregated, 0, n_max)} :
               /\ q[2] > 0
               /\ 0 <= lo /\ lo <= hi /\ hi <= n_max
               /\ lo * q[2] <= q[1]
               /\ q[1] <= hi * q[2]
    /\ numero_pecas # <<>> => numero_pecas[1] \in 0..n_max

C10_Witness ==
    /\ Computed
    /\ numero_pecas # <<>>
    /\ support_min(aggregated, 0, n_max) > 0
    /\ firing[3] > 0 /\ firing[4] = 0

=============================================================================
